---- MODULE Spec2Model ----
(***************************************************************************)
(* Model of the PHPStan engine of vscode-phpstan (src/src/phpstan.ts) and  *)
(* of the diagnostic renderer (utils.ts).  Strings are sequences of        *)
(* one-character strings, so that trim, split, substr and Number are       *)
(* computed as the code computes them.                                     *)
(***************************************************************************)
EXTENDS Integers, Sequences, FiniteSets, TLC

(***************************************************************************)
(* Bounds of the model.                                                    *)
(***************************************************************************)
\* number of updateDocument calls that pass the guards
MaxSubmits == 2
\* the same, where the lock hand-over between three runs is followed
MaxLiveSubmits == 3
\* number of configuration changes (enabled / excludeFiles setters)
MaxConfig == 1
\* number of updateDocument calls where every setter is followed
MaxConfigSubmits == 2
\* number of updateDocument calls where the recovery of the path is followed
MaxRecoverSubmits == 3
\* number of enabled changes and of updateDocument calls where the engine is
\* disabled and enabled again
MaxToggles == 2
MaxToggleSubmits == 3
\* number of runs whose tool-level lines are followed
MaxNotifySubmits == 2
\* number of updateDocument calls where every document has unsaved changes
MaxSnapshotSubmits == 2
\* number of updateDocument calls before dispose
MaxDisposeSubmits == 2
\* number of runs whose output is parsed
MaxParseSubmits == 2

(***************************************************************************)
(* Strings.                                                                *)
(***************************************************************************)
Whitespace == {" ", "\t", "\n"}
Digits == {"0", "1", "2", "3", "4", "5", "6", "7", "8", "9"}

DigitVal(c) ==
    CASE c = "0" -> 0 [] c = "1" -> 1 [] c = "2" -> 2 [] c = "3" -> 3
      [] c = "4" -> 4 [] c = "5" -> 5 [] c = "6" -> 6 [] c = "7" -> 7
      [] c = "8" -> 8 [] c = "9" -> 9

\* String.prototype.substr(n) with 0 <= n
Substr(s, n) == SubSeq(s, n + 1, Len(s))

\* String.prototype.startsWith
StartsWith(s, p) == Len(s) >= Len(p) /\ SubSeq(s, 1, Len(p)) = p

\* String.prototype.indexOf(sub) !== -1
Contains(s, sub) ==
    \E i \in 1..(Len(s) - Len(sub) + 1) : SubSeq(s, i, i + Len(sub) - 1) = sub

RECURSIVE TrimLeft(_)
TrimLeft(s) ==
    IF s # <<>> /\ Head(s) \in Whitespace THEN TrimLeft(Tail(s)) ELSE s

RECURSIVE TrimRight(_)
TrimRight(s) ==
    IF s # <<>> /\ s[Len(s)] \in Whitespace
    THEN TrimRight(SubSeq(s, 1, Len(s) - 1))
    ELSE s

\* String.prototype.trim
Trim(s) == TrimRight(TrimLeft(s))

\* String.prototype.split(sep) for a one-character separator: the pieces
\* between the separators, from the positions of the separators
Split(s, sep) ==
    LET at == {i \in 1..Len(s) : s[i] = sep}
        Cut(n) == IF n = 0 THEN 0
                  ELSE IF n = Cardinality(at) + 1 THEN Len(s) + 1
                  ELSE CHOOSE p \in at : Cardinality({q \in at : q < p}) = n - 1
    IN  [n \in 1..(Cardinality(at) + 1) |-> SubSeq(s, Cut(n - 1) + 1, Cut(n) - 1)]

\* Array.prototype.join(sep)
RECURSIVE Join(_, _)
Join(parts, sep) ==
    IF parts = <<>> THEN <<>>
    ELSE IF Len(parts) = 1 THEN parts[1]
    ELSE parts[1] \o <<sep>> \o Join(Tail(parts), sep)

RECURSIVE DecimalValue(_, _)
DecimalValue(s, acc) ==
    IF s = <<>> THEN acc ELSE DecimalValue(Tail(s), 10 * acc + DigitVal(Head(s)))

\* Number(str) for the strings of the model: whitespace is trimmed, the empty
\* string is 0, an optionally signed run of decimal digits is its value,
\* anything else is NaN.
Number(s) ==
    LET t == Trim(s)
        neg == t # <<>> /\ Head(t) = "-"
        u == IF t # <<>> /\ Head(t) \in {"-", "+"} THEN Tail(t) ELSE t
    IN  IF t = <<>> THEN [nan |-> FALSE, val |-> 0]
        ELSE IF u # <<>> /\ \A i \in 1..Len(u) : u[i] \in Digits
        THEN [nan |-> FALSE,
              val |-> IF neg THEN 0 - DecimalValue(u, 0) ELSE DecimalValue(u, 0)]
        ELSE [nan |-> TRUE, val |-> 0]

\* [].concat.apply([], lists)
RECURSIVE Concat(_)
Concat(lists) ==
    IF lists = <<>> THEN <<>> ELSE Head(lists) \o Concat(Tail(lists))

RECURSIVE MapSeq(_, _)
MapSeq(Op(_), s) ==
    IF s = <<>> THEN <<>> ELSE <<Op(Head(s))>> \o MapSeq(Op, Tail(s))

RECURSIVE FilterSeq(_, _)
FilterSeq(Keep(_), s) ==
    IF s = <<>> THEN <<>>
    ELSE (IF Keep(Head(s)) THEN <<Head(s)>> ELSE <<>>) \o FilterSeq(Keep, Tail(s))

(***************************************************************************)
(* Documents, paths and the file system.                                   *)
(***************************************************************************)
\* the open text documents: two PHP files and one file of another language
Docs == {"a", "b", "n"}
PhpDocs == {"a", "b"}

\* TextDocument.languageId
languageId(d) == IF d = "n" THEN "plaintext" ELSE "php"

\* the workspace folder that owns every document (workspaceFolder.uri.fsPath)
WorkspaceDir == <<"/", "w">>

\* path.join(dir, x)
PathJoin(dir, x) == dir \o <<"/">> \o x

\* TextDocument.fileName, also uri.fsPath
fileName(d) == PathJoin(WorkspaceDir, <<d>>)

\* Uri.file(path).toString(), also TextDocument.uri.toString()
UriString(path) == <<"f", "i", "l", "e", ":", "/", "/">> \o path

\* the files on disk, in the order a directory walk lists them
FSList == <<fileName("a"), fileName("b"), fileName("n")>>

\* tmp.fileSync().name of the snapshot of run r
DigitChar(n) ==
    CASE n = 0 -> "0" [] n = 1 -> "1" [] n = 2 -> "2" [] n = 3 -> "3"
      [] n = 4 -> "4" [] n = 5 -> "5" [] n = 6 -> "6" [] n = 7 -> "7"
      [] n = 8 -> "8" [] n = 9 -> "9"

TmpName(r) == <<"/", "t", "m", "p", "/", DigitChar(r % 10)>>

\* the text of a document: its lines
Texts ==
    { << <<" ", "x">> >>,
      << <<" ", "x">>, <<" ", "y", " ">> >> }

(***************************************************************************)
(* Exclusion filter.                                                       *)
(***************************************************************************)
\* glob matching of one path against one pattern; "*" matches any run of
\* characters other than "/"
RECURSIVE GlobMatch(_, _)
GlobMatch(pat, path) ==
    IF pat = <<>> THEN path = <<>>
    ELSE IF Head(pat) = "*"
    THEN \/ GlobMatch(Tail(pat), path)
         \/ path # <<>> /\ Head(path) # "/" /\ GlobMatch(pat, Tail(path))
    ELSE path # <<>> /\ Head(path) = Head(pat) /\ GlobMatch(Tail(pat), Tail(path))

\* globAsync(pattern, {}): the files on disk that match
globAsync(pattern) ==
    LET Hit(path) == GlobMatch(pattern, path) IN FilterSeq(Hit, FSList)

\* the values the excludeFiles setting takes
ExcludeConfigs == { <<>>, << <<"b">>, <<"*", "b">> >> }

\* PHPStan.isExcluded, for the excludeFiles in force when it is called
isExcluded(document, excludeFiles) ==
    LET Resolve(x) == PathJoin(WorkspaceDir, x)
        excludes == MapSeq(Resolve, excludeFiles)
        data == MapSeq(globAsync, excludes)
        merged == Concat(data)
        FirstAt(pos) == \A j \in 1..(pos - 1) : merged[j] # merged[pos]
        unique == [i \in {p \in 1..Len(merged) : FirstAt(p)} |-> merged[i]]
    IN  \E i \in DOMAIN unique : unique[i] = fileName(document)

(***************************************************************************)
(* Output parser (the exit handler of updateDocument).                     *)
(***************************************************************************)
WarningPrefix == <<"W","a","r","n","i","n","g",":">>
FatalPrefix == <<"F","a","t","a","l"," ","e","r","r","o","r",":">>
ToolTag == <<"[","p","h","p","s","t","a","n","]"," ">>
QueuedText == <<"q","u","e","u","e","d"," ","f","o","r"," ","s","c","a","n","n","i","n","g">>
AutoloadNeedle == <<"n","o","t"," ","f","o","u","n","d"," ","w","h","i","l","e"," ","t","r","y","i","n","g"," ","t","o"," ","a","n","a","l","y","s","e"," ","i","t">>
AutoloadText == <<"F","i","l","e"," ","p","r","o","b","a","b","l","y"," ","n","o","t"," ","a","u","t","o","l","o","a","d","e","d"," ","c","o","r","r","e","c","t","l","y",","," ","s","o","m","e"," ","a","n","a","l","y","s","i","s"," ","i","s"," ","u","n","a","v","a","i","l","a","b","l","e",".">>

\* ToolMessage as it would be if fatal errors were shown as warnings
ToolMessageAsWarning(x) ==
    IF StartsWith(x, WarningPrefix)
    THEN [message |-> Trim(Substr(x, Len(WarningPrefix))), type |-> "warning"]
    ELSE IF StartsWith(x, FatalPrefix)
    THEN [message |-> Trim(Substr(x, Len(FatalPrefix))), type |-> "warning"]
    ELSE [message |-> Trim(x), type |-> "info"]

\* one tool-level line of a run that did not exit with code 1
ToolMessage(x) ==
    IF StartsWith(x, WarningPrefix)
    THEN [message |-> Trim(Substr(x, Len(WarningPrefix))), type |-> "warning"]
    ELSE IF StartsWith(x, FatalPrefix)
    THEN [message |-> Trim(Substr(x, Len(FatalPrefix))), type |-> "error"]
    ELSE [message |-> Trim(x), type |-> "info"]

\* ToolData as it would be if only the lines with a known prefix counted
ToolDataPrefixedOnly(results) ==
    LET IsToolLine(x) == StartsWith(x, WarningPrefix) \/ StartsWith(x, FatalPrefix)
    IN  MapSeq(ToolMessage, FilterSeq(IsToolLine, MapSeq(Trim, Split(results, "\n"))))

\* the tool-level lines of results: trimmed, without blank lines and lines
\* that start with "!"
ToolData(results) ==
    LET IsToolLine(x) == ~StartsWith(x, <<"!">>) /\ Len(Trim(x)) # 0
    IN  MapSeq(ToolMessage, FilterSeq(IsToolLine, MapSeq(Trim, Split(results, "\n"))))

\* the notification shown for one tool-level line
Notification(error) == [type |-> error.type, text |-> ToolTag \o error.message]

\* ParseFields as it would be if line 0 were kept
RECURSIVE ParseFieldsZeroLine(_, _, _)
ParseFieldsZeroLine(xs, file, autoloadError) ==
    IF xs = <<>> THEN <<>>
    ELSE LET x == Head(xs)
             n == Number(x[1])
             error0 == Join(Tail(x), ":")
             isAutoload == Contains(error0, AutoloadNeedle)
             dropped == isAutoload /\ autoloadError
             error == IF isAutoload THEN AutoloadText ELSE error0
             line == IF isAutoload THEN 1 ELSE n.val
             nan == IF isAutoload THEN FALSE ELSE n.nan
             this == IF dropped \/ nan THEN <<>>
                     ELSE << [file |-> file, line |-> line,
                              msg |-> ToolTag \o error, type |-> "undefined"] >>
         IN  this \o ParseFieldsZeroLine(Tail(xs), file, autoloadError \/ isAutoload)

\* the findings of the split lines xs; autoloadError is the flag of the run
RECURSIVE ParseFields(_, _, _)
ParseFields(xs, file, autoloadError) ==
    IF xs = <<>> THEN <<>>
    ELSE LET x == Head(xs)
             n == Number(x[1])
             line0 == IF ~n.nan /\ n.val = 0 THEN 1 ELSE n.val
             error0 == Join(Tail(x), ":")
             isAutoload == Contains(error0, AutoloadNeedle)
             dropped == isAutoload /\ autoloadError
             error == IF isAutoload THEN AutoloadText ELSE error0
             line == IF isAutoload THEN 1 ELSE line0
             nan == IF isAutoload THEN FALSE ELSE n.nan
             this == IF dropped \/ nan THEN <<>>
                     ELSE << [file |-> file, line |-> line,
                              msg |-> ToolTag \o error, type |-> "undefined"] >>
         IN  this \o ParseFields(Tail(xs), file, autoloadError \/ isAutoload)

\* ParseFindings as it would be if the autoload flag were set from the start
ParseFindingsFlagSet(results, filePath, file) ==
    LET Strip(x) == Trim(Substr(x, Len(filePath) + 1))
        NonEmpty(x) == Len(x) > 0
        ByColon(x) == Split(x, ":")
    IN  ParseFields(MapSeq(ByColon, FilterSeq(NonEmpty, MapSeq(Strip, Split(results, "\n")))),
                    file, TRUE)

\* ParseFindings as it would be if the findings had the analysed path
ParseFindingsUnderSnapshot(results, filePath, file) ==
    LET Strip(x) == Trim(Substr(x, Len(filePath) + 1))
        NonEmpty(x) == Len(x) > 0
        ByColon(x) == Split(x, ":")
    IN  ParseFields(MapSeq(ByColon, FilterSeq(NonEmpty, MapSeq(Strip, Split(results, "\n")))),
                    filePath, FALSE)

\* the findings parser: results is the stdout of the run, filePath the path
\* that was analysed, file the fileName of the document
ParseFindings(results, filePath, file) ==
    LET Strip(x) == Trim(Substr(x, Len(filePath) + 1))
        NonEmpty(x) == Len(x) > 0
        ByColon(x) == Split(x, ":")
    IN  ParseFields(MapSeq(ByColon, FilterSeq(NonEmpty, MapSeq(Strip, Split(results, "\n")))),
                    file, FALSE)

\* QueuedPlaceholder as it would be without its severity
QueuedPlaceholderUntyped(file) ==
    << [file |-> file, line |-> 1, msg |-> ToolTag \o QueuedText, type |-> "undefined"] >>

\* the placeholder of a file whose timer fired before it had any result
QueuedPlaceholder(file) ==
    << [file |-> file, line |-> 1, msg |-> ToolTag \o QueuedText, type |-> "Information"] >>

(***************************************************************************)
(* Diagnostic renderer (handleDiagnosticErrors).                           *)
(***************************************************************************)
\* /^(\s*).*(\s*)$/.exec(text): the first group is the leading whitespace;
\* the greedy .* takes the rest of the line, so the second group is empty
RegexGroups(text) ==
    [leading |-> SubSeq(text, 1, Len(text) - Len(TrimLeft(text))), trailing |-> <<>>]

\* TextDocument.lineAt(line) throws unless 0 <= line < lineCount
LineAtThrows(text, line) == line < 0 \/ line >= Len(text)

\* the diagnostic of one error; doc is the text of its document
Diagnostic(error, text) ==
    LET t == text[error.line]
        g == RegexGroups(t)
    IN  [line |-> error.line - 1,
         startColumn |-> Len(g.leading),
         endColumn |-> Len(t) - Len(g.trailing),
         msg |-> error.msg,
         severity |-> IF error.type = "undefined" THEN "Error" ELSE error.type]

\* the diagnostic of an error whose document is not among the documents
FallbackDiagnostic(error) ==
    [line |-> error.line - 1, startColumn |-> 0, endColumn |-> 1, msg |-> error.msg,
     severity |-> IF error.type = "undefined" THEN "Error" ELSE error.type]

\* does handleDiagnosticErrors throw: lineAt of a line the document does not
\* have, or a Range on a negative line
RenderThrows(documents, errors, texts) ==
    \E i \in 1..Len(errors) :
        LET e == errors[i]
            found == \E d \in documents : UriString(fileName(d)) = UriString(e.file)
            doc == CHOOSE d \in documents : UriString(fileName(d)) = UriString(e.file)
        IN  IF found THEN LineAtThrows(texts[doc], e.line - 1) ELSE e.line - 1 < 0

\* the diagnostic collection after handleDiagnosticErrors: per document the
\* diagnostics of its errors, in the order of the errors
RenderMap(documents, errors, texts) ==
    [d \in PhpDocs |->
        LET Mine(e) == UriString(e.file) = UriString(fileName(d))
            OneDiag(e) == IF d \in documents THEN Diagnostic(e, texts[d])
                          ELSE FallbackDiagnostic(e)
        IN  MapSeq(OneDiag, FilterSeq(Mine, errors))]

EmptyCollection == [d \in PhpDocs |-> <<>>]

\* PublishOn as it would be if the diagnostics were added to those the
\* collection holds
PublishOnAppending(collection, documents, errors, texts) ==
    IF RenderThrows(documents, errors, texts) THEN collection
    ELSE [d \in PhpDocs |-> collection[d] \o RenderMap(documents, errors, texts)[d]]

\* the body of handleDiagnosticErrors on a collection: clear it, build the
\* map of the diagnostics, set the diagnostics of every file of the map (the
\* files that are not in the map stay cleared: RenderMap has <<>> for them)
PublishOn(collection, documents, errors, texts) ==
    IF RenderThrows(documents, errors, texts)
    THEN [d \in DOMAIN collection |-> <<>>]
    ELSE RenderMap(documents, errors, texts)

\* handleDiagnosticErrors(documents, errors, collection) as the exit handler
\* calls it, on the collection it has cleared
handleDiagnosticErrors(documents, errors, texts) ==
    PublishOn(EmptyCollection, documents, errors, texts)

(***************************************************************************)
(* The engine: class PHPStan.                                              *)
(***************************************************************************)
VARIABLES
    enabled,        \* _config.enabled
    binaryPath,     \* _binaryPath: "null" or the path of the executable
    excludeFiles,   \* _config.excludeFiles
    calls,          \* the updateDocument calls that passed the guards, each with
                    \* what its closure holds: timer, lock wait, process, tmp:
                    \* does the temp file of its snapshot exist, and snap: the
                    \* content of that file
    timeouts,       \* _timeouts: per file the call whose timer is armed, or 0
    current,        \* _current: per file the call whose process it holds, or 0
    errors,         \* _errors: per file its ResultSet
    errorKeys,      \* the keys of _errors (and of _documents) in insertion order
    diag,           \* _diagnosticCollection: per file the published diagnostics
    statusBar,      \* is _statusBarItem shown
    numActive,      \* _numActive
    numQueued,      \* _numQueued
    settings,       \* _config: level, memoryLimit, options, projectFile
    nconf,          \* configuration changes made so far
    last,           \* what the handler that ran last did: "noop" (updateDocument
                    \* returned at a guard), "kept" (exit handler, results kept),
                    \* "applied" (exit handler, results replaced), "message" (it
                    \* showed the error message that phpstan was not found),
                    \* else "none"
    notifications,  \* the notifications of tool-level lines that the handler
                    \* that ran last showed (window.show...Message)
    disposed        \* has dispose() been called

vars == <<enabled, binaryPath, excludeFiles, calls, timeouts, current, errors,
          errorKeys, diag, statusBar, numActive, numQueued, settings, nconf, last,
          notifications, disposed>>

\* the path findPHPStan resolves
FoundPath == "/usr/bin/phpstan"

\* exit codes: a signal gives the exit handler code null
NullCode == -1
ExitCodes == {0, 1, 255}

\* the stdout of a run that analysed filePath
Outputs(filePath) ==
    << <<>>,
       filePath \o <<":", "2", ":", "m">>,
       <<"F","a","t","a","l"," ","e","r","r","o","r",":"," ","x">> >>

NumOutputs == Len(Outputs(<<>>))

\* lines of the raw error format, <path>:<field>:<msg>, by their parts: val is
\* the number the field denotes when it is one, shown is msg without its
\* trailing whitespace, auto says that msg has the text of an autoload failure
OutputLines ==
    << [field |-> <<"0">>, numeric |-> TRUE, val |-> 0,
        msg |-> <<"m">>, shown |-> <<"m">>, auto |-> FALSE],
       [field |-> <<"2">>, numeric |-> TRUE, val |-> 2,
        msg |-> <<"a", ":", "b">>, shown |-> <<"a", ":", "b">>, auto |-> FALSE],
       [field |-> <<"1", "2">>, numeric |-> TRUE, val |-> 12,
        msg |-> <<"m", " ">>, shown |-> <<"m">>, auto |-> FALSE],
       [field |-> <<"x">>, numeric |-> FALSE, val |-> 0,
        msg |-> <<"m">>, shown |-> <<"m">>, auto |-> FALSE],
       [field |-> <<>>, numeric |-> FALSE, val |-> 0,
        msg |-> <<"m">>, shown |-> <<"m">>, auto |-> FALSE],
       [field |-> <<"3">>, numeric |-> TRUE, val |-> 3,
        msg |-> <<"X", " ">> \o AutoloadNeedle, shown |-> <<"X", " ">> \o AutoloadNeedle,
        auto |-> TRUE],
       [field |-> <<"x">>, numeric |-> FALSE, val |-> 0,
        msg |-> AutoloadNeedle \o <<".">>, shown |-> AutoloadNeedle \o <<".">>,
        auto |-> TRUE] >>

NumLines == Len(OutputLines)

\* the stdout of a run that printed the lines ids for filePath, each line
\* ended by a newline
Stdout(filePath, ids) ==
    Concat([i \in 1..Len(ids) |->
               filePath \o <<":">> \o OutputLines[ids[i]].field \o <<":">>
               \o OutputLines[ids[i]].msg \o <<"\n">>])

\* the outputs after those of Outputs: every line alone, then every pair
LineIds(k) ==
    IF k <= NumLines THEN <<k>>
    ELSE <<((k - NumLines - 1) \div NumLines) + 1, ((k - NumLines - 1) % NumLines) + 1>>

NumAllOutputs == NumOutputs + NumLines + NumLines * NumLines

\* lines of a run that failed, by their parts: text is the line, kind the
\* type of its notification ("none": the line is skipped), message the text
\* of the notification after the tool tag
ToolLines ==
    << [text |-> WarningPrefix \o <<" ", "w">>, kind |-> "warning", message |-> <<"w">>],
       [text |-> FatalPrefix \o <<"x", " ">>, kind |-> "error", message |-> <<"x">>],
       [text |-> <<" ", " ">> \o WarningPrefix, kind |-> "warning", message |-> <<>>],
       [text |-> <<"n", "o", "t", "e">>, kind |-> "info", message |-> <<"n", "o", "t", "e">>],
       [text |-> <<"w", "a", "r", "n", "i", "n", "g", ":", "w">>, kind |-> "info",
        message |-> <<"w", "a", "r", "n", "i", "n", "g", ":", "w">>],
       [text |-> <<"!", "s", "k", "i", "p">>, kind |-> "none", message |-> <<>>],
       [text |-> <<" ", "!", " ", "x">>, kind |-> "none", message |-> <<>>],
       [text |-> <<" ", "\t">>, kind |-> "none", message |-> <<>>] >>

NumToolLines == Len(ToolLines)

\* the stdout of a run that printed the tool lines ids, each ended by a
\* newline
ToolStdout(ids) == Concat([i \in 1..Len(ids) |-> ToolLines[ids[i]].text \o <<"\n">>])

\* the outputs made of ToolLines: every line alone, then every pair
ToolLineIds(k) ==
    IF k <= NumToolLines THEN <<k>>
    ELSE <<((k - NumToolLines - 1) \div NumToolLines) + 1,
           ((k - NumToolLines - 1) % NumToolLines) + 1>>

NumToolOutputs == NumToolLines + NumToolLines * NumToolLines

\* stdout number k of a run that analysed filePath
Output(filePath, k) ==
    IF k <= NumOutputs THEN Outputs(filePath)[k]
    ELSE IF k <= NumAllOutputs THEN Stdout(filePath, LineIds(k - NumOutputs))
    ELSE ToolStdout(ToolLineIds(k - NumAllOutputs))

NoEvent == "none"

\* the values of the settings: two for each, the first is the initial one
Levels == {"0", "max"}
MemoryLimits == {"512M", "1G"}
OptionLists == {<<>>, <<"--debug">>}
ProjectFiles == {"null", "/w/phpstan.neon"}

Init ==
    /\ enabled = TRUE
    /\ binaryPath = FoundPath
    /\ excludeFiles \in ExcludeConfigs
    /\ calls = <<>>
    /\ timeouts = [d \in PhpDocs |-> 0]
    /\ current = [d \in PhpDocs |-> 0]
    /\ errors = [d \in PhpDocs |-> <<>>]
    /\ errorKeys = <<>>
    /\ diag = EmptyCollection
    /\ statusBar = FALSE
    /\ numActive = 0
    /\ numQueued = 0
    /\ settings = [level |-> "0", memoryLimit |-> "512M", options |-> <<>>,
                   projectFile |-> "null"]
    /\ nconf = 0
    /\ last = NoEvent
    /\ notifications = <<>>
    /\ disposed = FALSE

InSeq(x, s) == \E i \in 1..Len(s) : s[i] = x

\* the states of a call: "awaiting" isExcluded, "excluded", timer "armed",
\* timer "cancelled", "waiting" for the lock, spawn "threw", "spawnerror"
\* (error event pending), "failed" (error handler ran), process "running",
\* "exited" (exit handler ran)
Over == {"excluded", "cancelled", "threw", "failed", "exited"}

\* a process that was spawned and has not exited
Executing(c) == calls[c].st = "running"

\* ChildProcess.kill() on the process of call c: a live process gets the
\* signal and its killed flag; who names the caller
KillRun(cs, c, who) ==
    IF cs[c].st = "running" /\ ~cs[c].killed
    THEN [cs EXCEPT ![c].killed = TRUE, ![c].by = who]
    ELSE cs

\* hideStatusBar, with the counters as they are when it is called
hideStatusBar(shown, active, queued) ==
    IF active = 0 /\ queued = 0 THEN FALSE ELSE shown

\* the guards as they would be if the enabled flag were not tested
EligibleIgnoringEnabled(d) == binaryPath # "null" /\ languageId(d) = "php"

\* the guards of updateDocument
Eligible(d) == binaryPath # "null" /\ enabled /\ languageId(d) = "php"

\* AfterExclusion as it would be if the result of isExcluded were ignored
AfterExclusionAlways(cs, tmo, c) ==
    [calls |-> [i \in 1..Len(cs) |->
                   IF i = c THEN [cs[i] EXCEPT !.st = "armed"]
                   ELSE IF i = tmo[cs[c].doc]
                   THEN [cs[i] EXCEPT !.st = "cancelled", !.sup = {}]
                   ELSE cs[i]],
     timeouts |-> [tmo EXCEPT ![cs[c].doc] = c]]

\* AfterExclusion as it would be if the timers of all files were cleared
AfterExclusionClearingAll(cs, tmo, c) ==
    IF cs[c].excl
    THEN [calls |-> [cs EXCEPT ![c].st = "excluded", ![c].sup = {}],
          timeouts |-> tmo]
    ELSE [calls |-> [i \in 1..Len(cs) |->
                        IF i = c THEN [cs[i] EXCEPT !.st = "armed"]
                        ELSE IF \E d \in PhpDocs : i = tmo[d]
                        THEN [cs[i] EXCEPT !.st = "cancelled", !.sup = {}]
                        ELSE cs[i]],
          timeouts |-> [d \in PhpDocs |-> IF d = cs[c].doc THEN c ELSE 0]]

\* updateDocument after the await of isExcluded: return when excluded, else
\* clear the timer of the file and set a new one
AfterExclusion(cs, tmo, c) ==
    IF cs[c].excl
    THEN [calls |-> [cs EXCEPT ![c].st = "excluded", ![c].sup = {}],
          timeouts |-> tmo]
    ELSE [calls |-> [i \in 1..Len(cs) |->
                        IF i = c THEN [cs[i] EXCEPT !.st = "armed"]
                        ELSE IF i = tmo[cs[c].doc]
                        THEN [cs[i] EXCEPT !.st = "cancelled", !.sup = {}]
                        ELSE cs[i]],
          timeouts |-> [tmo EXCEPT ![cs[c].doc] = c]]

\* updateDocument(d) up to the await of isExcluded. Without exclude patterns
\* the await has no glob to wait for and is over before any other handler
\* runs, so the call goes on to the timer in the same step.
updateDocument(d) ==
    /\ IF ~Eligible(d)
       THEN /\ statusBar' = hideStatusBar(statusBar, numActive, numQueued)
            /\ last' = "noop"
            /\ notifications' = <<>>
            /\ UNCHANGED disposed
            /\ UNCHANGED <<calls, current, timeouts>>
       ELSE /\ LET killed == IF current[d] # 0 THEN KillRun(calls, current[d], "submit")
                             ELSE calls
                   called == Append(killed,
                       [doc |-> d, st |-> "awaiting",
                        excl |-> isExcluded(d, excludeFiles),
                        sup |-> {c \in 1..Len(calls) :
                                    calls[c].doc = d /\ calls[c].st \in {"awaiting", "armed"}},
                        tmp |-> FALSE, snap |-> <<>>, killed |-> FALSE, by |-> "none"])
                   after == AfterExclusion(called, timeouts, Len(called))
               IN  IF excludeFiles = <<>>
                   THEN calls' = after.calls /\ timeouts' = after.timeouts
                   ELSE calls' = called /\ UNCHANGED timeouts
            /\ current' = [current EXCEPT ![d] = 0]
            /\ last' = NoEvent
            /\ notifications' = <<>>
            /\ UNCHANGED disposed
            /\ UNCHANGED statusBar
    /\ UNCHANGED <<enabled, binaryPath, excludeFiles, errors, errorKeys,
                   diag, numActive, numQueued, settings, nconf>>

\* the continuation of updateDocument once the globs of isExcluded are done
ExclusionResume(c) ==
    /\ c \in 1..Len(calls)
    /\ calls[c].st = "awaiting"
    /\ LET after == AfterExclusion(calls, timeouts, c)
       IN  calls' = after.calls /\ timeouts' = after.timeouts
    /\ last' = NoEvent
    /\ notifications' = <<>>
    /\ UNCHANGED disposed
    /\ UNCHANGED <<enabled, binaryPath, excludeFiles, current, errors, errorKeys,
                   diag, statusBar, numActive, numQueued, settings, nconf>>

\* TimerFire as it would be if the file on disk were always analysed
TimerFireOnDisk(d, isDirty, text) ==
    /\ timeouts[d] # 0
    /\ timeouts' = [timeouts EXCEPT ![d] = 0]
    /\ calls' = [calls EXCEPT ![timeouts[d]].st = "waiting"]
    /\ IF ~InSeq(d, errorKeys)
       THEN /\ errors' = [errors EXCEPT ![d] = QueuedPlaceholder(fileName(d))]
            /\ errorKeys' = Append(errorKeys, d)
       ELSE UNCHANGED <<errors, errorKeys>>
    /\ numQueued' = numQueued + 1
    /\ last' = NoEvent
    /\ notifications' = <<>>
    /\ UNCHANGED disposed
    /\ UNCHANGED <<enabled, binaryPath, excludeFiles, current, diag, statusBar,
                   numActive, settings, nconf>>

\* the timer callback up to the await of waitFor; text is the buffer of the
\* document (getText()), written to the temp file of a dirty document
TimerFire(d, isDirty, text) ==
    /\ timeouts[d] # 0
    /\ timeouts' = [timeouts EXCEPT ![d] = 0]
    /\ calls' = [calls EXCEPT ![timeouts[d]].st = "waiting",
                              ![timeouts[d]].tmp = isDirty,
                              ![timeouts[d]].snap = IF isDirty THEN text ELSE <<>>]
    /\ IF ~InSeq(d, errorKeys)
       THEN /\ errors' = [errors EXCEPT ![d] = QueuedPlaceholder(fileName(d))]
            /\ errorKeys' = Append(errorKeys, d)
       ELSE UNCHANGED <<errors, errorKeys>>
    /\ numQueued' = numQueued + 1
    /\ last' = NoEvent
    /\ notifications' = <<>>
    /\ UNCHANGED disposed
    /\ UNCHANGED <<enabled, binaryPath, excludeFiles, current, diag, statusBar,
                   numActive, settings, nconf>>

\* the callback given to waitFor: claim the lock when it is free
LockFree == numActive = 0

\* waitFor(callback) of call c: a tick of its poll finds the callback true
waitFor(c) ==
    /\ c \in 1..Len(calls)
    /\ calls[c].st = "waiting"
    /\ LockFree

\* LockPoll as it would be if the queued counter were not decremented
LockPollKeepingQueued(c, spawned) ==
    /\ waitFor(c)
    /\ numActive' = numActive + 1
    /\ IF binaryPath = "null"
       THEN /\ calls' = [calls EXCEPT ![c].st = "threw"]
            /\ UNCHANGED <<current, statusBar>>
       ELSE /\ calls' = [calls EXCEPT ![c].st = IF spawned THEN "running" ELSE "spawnerror"]
            /\ current' = [current EXCEPT ![calls[c].doc] = c]
            /\ statusBar' = TRUE
    /\ last' = NoEvent
    /\ notifications' = <<>>
    /\ UNCHANGED disposed
    /\ UNCHANGED <<enabled, binaryPath, excludeFiles, timeouts, errors, errorKeys,
                   diag, numQueued, settings, nconf>>

\* a tick of the lock poll that claims the lock, and the rest of the timer
\* callback: spawn and the registration of the handlers.  spawn throws when
\* _binaryPath is null; spawned says whether the executable could be started
LockPoll(c, spawned) ==
    /\ waitFor(c)
    /\ numActive' = numActive + 1
    /\ numQueued' = numQueued - 1
    /\ IF binaryPath = "null"
       THEN /\ calls' = [calls EXCEPT ![c].st = "threw"]
            /\ UNCHANGED <<current, statusBar>>
       ELSE /\ calls' = [calls EXCEPT ![c].st = IF spawned THEN "running" ELSE "spawnerror"]
            /\ current' = [current EXCEPT ![calls[c].doc] = c]
            /\ statusBar' = TRUE
    /\ last' = NoEvent
    /\ notifications' = <<>>
    /\ UNCHANGED disposed
    /\ UNCHANGED <<enabled, binaryPath, excludeFiles, timeouts, errors, errorKeys,
                   diag, settings, nconf>>

\* ErrorEvent as it would be if the binary path were kept
ErrorEventKeepingPath(c, enoent) ==
    /\ c \in 1..Len(calls)
    /\ calls[c].st = "spawnerror"
    /\ calls' = [calls EXCEPT ![c].st = "failed"]
    /\ last' = IF enoent THEN "message" ELSE NoEvent
    /\ notifications' = <<>>
    /\ UNCHANGED disposed
    /\ UNCHANGED <<enabled, binaryPath, excludeFiles, timeouts, current, errors,
                   errorKeys, diag, statusBar, numActive, numQueued, settings, nconf>>

\* the "error" handler of the process of call c; no "exit" follows a spawn
\* that failed
ErrorEvent(c, enoent) ==
    /\ c \in 1..Len(calls)
    /\ calls[c].st = "spawnerror"
    /\ calls' = [calls EXCEPT ![c].st = "failed"]
    /\ binaryPath' = IF enoent THEN "null" ELSE binaryPath
    /\ last' = IF enoent THEN "message" ELSE NoEvent
    /\ notifications' = <<>>
    /\ UNCHANGED disposed
    /\ UNCHANGED <<enabled, excludeFiles, timeouts, current, errors, errorKeys,
                   diag, statusBar, numActive, numQueued, settings, nconf>>

\* the path the process of call c analysed
FilePath(c) == IF calls[c].tmp THEN TmpName(c) ELSE fileName(calls[c].doc)

\* [].concat.apply([], Object.values(errs))
MergedErrors(errs, keys) == Concat([i \in 1..Len(keys) |-> errs[keys[i]]])

\* the "exit" handler of the process of call c, with exit code code, stdout
\* number k and the documents' texts at that moment; clear() of a collection
\* that was disposed throws
ExitEvent(c, code, k, texts) ==
    /\ c \in 1..Len(calls)
    /\ Executing(c)
    /\ code = NullCode => calls[c].killed
    /\ \E results \in {Output(FilePath(c), k)} :
       \E findings \in {ParseFindings(results, FilePath(c), fileName(calls[c].doc))} :
       \E keys1 \in {IF InSeq(calls[c].doc, errorKeys) THEN errorKeys
                     ELSE Append(errorKeys, calls[c].doc)} :
       \E merged \in {MergedErrors([errors EXCEPT ![calls[c].doc] = findings], keys1)} :
       LET d == calls[c].doc
           data == ToolData(results)
           active == numActive - 1
           errors1 == [errors EXCEPT ![d] = findings]
           docSet == {keys1[i] : i \in 1..Len(keys1)}
       IN  /\ numActive' = active
           /\ notifications' = IF code # 1 THEN MapSeq(Notification, data) ELSE <<>>
           /\ UNCHANGED disposed
           /\ calls' = [calls EXCEPT ![c].st = "exited",
                                     ![c].tmp = FALSE, ![c].snap = <<>>,
                                     ![c].killed = FALSE, ![c].by = "none", ![c].sup = {}]
           /\ current' = IF code # 1 THEN [current EXCEPT ![d] = 0] ELSE current
           /\ IF code # 1 /\ Len(data) > 0
              THEN /\ statusBar' = hideStatusBar(statusBar, active, numQueued)
                   /\ last' = "kept"
                   /\ UNCHANGED <<errors, errorKeys, diag>>
              ELSE /\ errors' = errors1
                   /\ errorKeys' = keys1
                   /\ diag' = IF disposed THEN diag
                              ELSE handleDiagnosticErrors(docSet, merged, texts)
                   /\ statusBar' =
                        IF disposed \/ RenderThrows(docSet, merged, texts)
                        THEN (IF code # 1 THEN hideStatusBar(statusBar, active, numQueued)
                              ELSE statusBar)
                        ELSE hideStatusBar(statusBar, active, numQueued)
                   /\ last' = "applied"
    /\ UNCHANGED <<enabled, binaryPath, excludeFiles, timeouts, numQueued, settings, nconf>>

\* set enabled(val)
SetEnabled(val) ==
    /\ nconf' = nconf + 1
    /\ val # enabled
    /\ enabled' = val
    /\ IF val
       THEN UNCHANGED <<calls, current, numActive, statusBar>>
       ELSE /\ calls' = [c \in 1..Len(calls) |->
                          IF \E d \in PhpDocs : current[d] = c
                          THEN KillRun(calls, c, "disable")[c]
                          ELSE calls[c]]
            /\ current' = [d \in PhpDocs |-> 0]
            /\ numActive' = 0
            /\ statusBar' = hideStatusBar(statusBar, 0, numQueued)
    /\ last' = NoEvent
    /\ notifications' = <<>>
    /\ UNCHANGED disposed
    /\ UNCHANGED <<binaryPath, excludeFiles, timeouts, errors, errorKeys, diag,
                   numQueued, settings>>

\* dispose(): kill the processes of _current that are not killed, dispose
\* the diagnostic collection (its diagnostics go) and the command
Dispose ==
    /\ ~disposed
    /\ disposed' = TRUE
    /\ calls' = [c \in 1..Len(calls) |->
                   IF \E d \in PhpDocs : current[d] = c
                   THEN KillRun(calls, c, "dispose")[c]
                   ELSE calls[c]]
    /\ diag' = EmptyCollection
    /\ last' = NoEvent
    /\ notifications' = <<>>
    /\ UNCHANGED <<enabled, binaryPath, excludeFiles, timeouts, current, errors,
                   errorKeys, statusBar, numActive, numQueued, settings, nconf>>

\* set excludeFiles(val)
SetExcludeFiles(val) ==
    /\ nconf < MaxConfig
    /\ nconf' = nconf + 1
    /\ val # excludeFiles
    /\ excludeFiles' = val
    /\ last' = NoEvent
    /\ notifications' = <<>>
    /\ UNCHANGED disposed
    /\ UNCHANGED <<enabled, binaryPath, calls, timeouts, current, errors, errorKeys,
                   diag, statusBar, numActive, numQueued, settings>>

\* the paths a path setting names: FoundPath exists and is executable,
\* "/w/phpstan.txt" exists and is not executable, "/missing" does not exist
PathValues == {"null", FoundPath, "/w/phpstan.txt", "/missing"}

\* fs.existsSync(p)
Exists(p) == p \in {FoundPath, "/w/phpstan.txt"}

\* fs.accessSync(p, X_OK) returns; it throws for null as for a file that may
\* not be executed
Executable(p) == p = FoundPath

\* set path(val); found is what findPHPStan resolves when val is null
SetPath(val, found) ==
    /\ nconf < MaxConfig
    /\ nconf' = nconf + 1
    /\ LET searched == IF val = "null" THEN found ELSE val
           existing == IF val # "null" /\ ~Exists(searched) THEN "null" ELSE searched
           usable == IF val # "null" /\ ~Executable(existing) THEN "null" ELSE existing
       IN  /\ binaryPath' = usable
           /\ last' = IF usable = "null" THEN "message" ELSE NoEvent
           /\ notifications' = <<>>
           /\ UNCHANGED disposed
    /\ UNCHANGED <<enabled, excludeFiles, calls, timeouts, current, errors, errorKeys,
                   diag, statusBar, numActive, numQueued, settings>>

\* set level(val)
SetLevel(val) ==
    /\ nconf < MaxConfig
    /\ nconf' = nconf + 1
    /\ settings' = [settings EXCEPT !.level = val]
    /\ last' = NoEvent
    /\ notifications' = <<>>
    /\ UNCHANGED disposed
    /\ UNCHANGED <<enabled, binaryPath, excludeFiles, calls, timeouts, current, errors,
                   errorKeys, diag, statusBar, numActive, numQueued>>

\* set memoryLimit(val)
SetMemoryLimit(val) ==
    /\ nconf < MaxConfig
    /\ nconf' = nconf + 1
    /\ settings' = [settings EXCEPT !.memoryLimit = val]
    /\ last' = NoEvent
    /\ notifications' = <<>>
    /\ UNCHANGED disposed
    /\ UNCHANGED <<enabled, binaryPath, excludeFiles, calls, timeouts, current, errors,
                   errorKeys, diag, statusBar, numActive, numQueued>>

\* set options(val)
SetOptions(val) ==
    /\ nconf < MaxConfig
    /\ nconf' = nconf + 1
    /\ settings' = [settings EXCEPT !.options = val]
    /\ last' = NoEvent
    /\ notifications' = <<>>
    /\ UNCHANGED disposed
    /\ UNCHANGED <<enabled, binaryPath, excludeFiles, calls, timeouts, current, errors,
                   errorKeys, diag, statusBar, numActive, numQueued>>

\* set projectFile(val)
SetProjectFile(val) ==
    /\ nconf < MaxConfig
    /\ nconf' = nconf + 1
    /\ settings' = [settings EXCEPT !.projectFile = val]
    /\ last' = NoEvent
    /\ notifications' = <<>>
    /\ UNCHANGED disposed
    /\ UNCHANGED <<enabled, binaryPath, excludeFiles, calls, timeouts, current, errors,
                   errorKeys, diag, statusBar, numActive, numQueued>>

\* the arguments of child_process.spawn for call c, after the executable;
\* the autoload and project files of the workspace folder are not there
SpawnArgs(c) ==
    <<"analyse", "--level=" \o settings.level>>
    \o (IF settings.projectFile # "null" THEN <<"-c", settings.projectFile>> ELSE <<>>)
    \o <<"--error-format=raw", "--memory-limit=" \o settings.memoryLimit>>
    \o settings.options
    \o <<FilePath(c)>>

\* the first line of the documents; the longer text has a second line
ShortText == << <<" ", "x">> >>

Submit == \E d \in Docs : (Eligible(d) => Len(calls) < MaxSubmits) /\ updateDocument(d)
Resume == \E c \in 1..Len(calls) : ExclusionResume(c)
Timer == \E d \in PhpDocs, isDirty \in BOOLEAN : TimerFire(d, isDirty, ShortText)
Lock == \E c \in 1..Len(calls), spawned \in BOOLEAN : LockPoll(c, spawned)
Error == \E c \in 1..Len(calls), enoent \in BOOLEAN : ErrorEvent(c, enoent)
Exit ==
    \E c \in 1..Len(calls), code \in ExitCodes \cup {NullCode}, k \in 1..NumOutputs,
       texts \in [PhpDocs -> Texts] : ExitEvent(c, code, k, texts)
Enable == \E val \in BOOLEAN : nconf < MaxConfig /\ SetEnabled(val)
Exclude == \E val \in ExcludeConfigs : SetExcludeFiles(val)

Next ==
    \/ Submit
    \/ Resume
    \/ Timer
    \/ Lock
    \/ Error
    \/ Exit
    \/ Enable
    \/ Exclude

Spec == Init /\ [][Next]_vars

(***************************************************************************)
(* The scheduler alone, for the claims about progress: the configuration  *)
(* stays as it is, and there are three submissions                         *)
(* of saved documents whose runs print nothing.  The event loop delivers   *)
(* every pending callback: promise continuations, timers, poll ticks and   *)
(* the events of the child processes.                                      *)
(***************************************************************************)
LiveSubmit == \E d \in PhpDocs : Len(calls) < MaxLiveSubmits /\ updateDocument(d)
LiveTimer == \E d \in PhpDocs : TimerFire(d, FALSE, ShortText)
LiveExit ==
    \E c \in 1..Len(calls), code \in {0, NullCode} :
        ExitEvent(c, code, 1, [d \in PhpDocs |-> ShortText])

LiveNext ==
    \/ LiveSubmit
    \/ Resume
    \/ LiveTimer
    \/ Lock
    \/ Error
    \/ LiveExit

FairSpec ==
    /\ Init
    /\ [][LiveNext]_vars
    /\ WF_vars(Resume)
    /\ WF_vars(LiveTimer)
    /\ WF_vars(Lock)
    /\ WF_vars(Error)
    /\ WF_vars(LiveExit)

(***************************************************************************)
(* The engine with every setter of the configuration, for the claims about *)
(* the settings, the binary path and the snapshot: the timer takes the     *)
(* buffer of the document as it is when it fires.                          *)
(***************************************************************************)
TwoLineText == << <<" ", "x">>, <<" ", "y", " ">> >>

ConfigSubmit ==
    \E d \in Docs : (Eligible(d) => Len(calls) < MaxConfigSubmits) /\ updateDocument(d)
ConfigTimer ==
    \E d \in PhpDocs, isDirty \in BOOLEAN, text \in Texts : TimerFire(d, isDirty, text)
ConfigExit ==
    \E c \in 1..Len(calls), code \in {0, 1}, k \in 1..NumOutputs :
        ExitEvent(c, code, k, [d \in PhpDocs |-> TwoLineText])
Path == \E val \in PathValues, found \in {"null", FoundPath} : SetPath(val, found)
Level == \E val \in Levels : SetLevel(val)
MemoryLimit == \E val \in MemoryLimits : SetMemoryLimit(val)
Options == \E val \in OptionLists : SetOptions(val)
ProjectFile == \E val \in ProjectFiles : SetProjectFile(val)

ConfigNext ==
    \/ ConfigSubmit
    \/ Resume
    \/ ConfigTimer
    \/ Lock
    \/ Error
    \/ ConfigExit
    \/ Enable
    \/ Exclude
    \/ Path
    \/ Level
    \/ MemoryLimit
    \/ Options
    \/ ProjectFile

ConfigSpec == Init /\ [][ConfigNext]_vars

(***************************************************************************)
(* Recovery from a missing executable: documents are submitted one after   *)
(* the other, each when the calls before it are over; a spawn that fails   *)
(* fails with ENOENT, and the path setting is then set to the executable.  *)
(***************************************************************************)
RecoverSubmit ==
    \E d \in PhpDocs :
        /\ Len(calls) < MaxRecoverSubmits
        /\ \A c \in 1..Len(calls) : calls[c].st \in Over
        /\ updateDocument(d)
RecoverError == \E c \in 1..Len(calls) : ErrorEvent(c, TRUE)
RecoverPath == SetPath(FoundPath, FoundPath)

RecoverNext ==
    \/ RecoverSubmit
    \/ Resume
    \/ LiveTimer
    \/ Lock
    \/ RecoverError
    \/ LiveExit
    \/ RecoverPath

RecoverSpec ==
    /\ Init
    /\ [][RecoverNext]_vars
    /\ WF_vars(Resume)
    /\ WF_vars(LiveTimer)
    /\ WF_vars(Lock)
    /\ WF_vars(RecoverError)
    /\ WF_vars(LiveExit)

(***************************************************************************)
(* The output parser at work: runs that follow one another, each exits     *)
(* with code 1 and one of the outputs made of OutputLines.                 *)
(***************************************************************************)
ParseSubmit ==
    \E d \in PhpDocs :
        /\ Len(calls) < MaxParseSubmits
        /\ \A c \in 1..Len(calls) : calls[c].st \in Over
        /\ updateDocument(d)
ParseLock == \E c \in 1..Len(calls) : LockPoll(c, TRUE)
ParseExit ==
    \E c \in 1..Len(calls), k \in 1..NumAllOutputs :
        ExitEvent(c, 1, k, [d \in PhpDocs |-> ShortText])

ParseNext ==
    \/ ParseSubmit
    \/ Resume
    \/ Timer
    \/ ParseLock
    \/ ParseExit

ParseSpec == Init /\ [][ParseNext]_vars

(***************************************************************************)
(* Disabling while a process runs, and enabling again: documents are       *)
(* submitted one after the other, the engine is disabled only while a      *)
(* process runs, and every pending callback is delivered.                  *)
(***************************************************************************)
ToggleSubmit ==
    \E d \in PhpDocs :
        /\ Len(calls) < MaxToggleSubmits
        /\ \A c \in 1..Len(calls) : calls[c].st \in Over
        /\ updateDocument(d)
ToggleEnable ==
    \E val \in BOOLEAN :
        /\ nconf < MaxToggles
        /\ ~val => \E c \in 1..Len(calls) : Executing(c)
        /\ SetEnabled(val)

ToggleNext ==
    \/ ToggleSubmit
    \/ Resume
    \/ LiveTimer
    \/ ParseLock
    \/ LiveExit
    \/ ToggleEnable

ToggleSpec ==
    /\ Init
    /\ [][ToggleNext]_vars
    /\ WF_vars(Resume)
    /\ WF_vars(LiveTimer)
    /\ WF_vars(ParseLock)
    /\ WF_vars(LiveExit)

(***************************************************************************)
(* The tool-level lines at work: runs that follow one another, each exits  *)
(* with code 0 or 1 and one of the outputs made of ToolLines.              *)
(***************************************************************************)
NotifySubmit ==
    \E d \in PhpDocs :
        /\ Len(calls) < MaxNotifySubmits
        /\ \A c \in 1..Len(calls) : calls[c].st \in Over
        /\ updateDocument(d)
NotifyExit ==
    \E c \in 1..Len(calls), code \in {0, 1},
       k \in (NumAllOutputs + 1)..(NumAllOutputs + NumToolOutputs) :
        ExitEvent(c, code, k, [d \in PhpDocs |-> ShortText])

NotifyNext ==
    \/ NotifySubmit
    \/ Resume
    \/ LiveTimer
    \/ ParseLock
    \/ NotifyExit

NotifySpec == Init /\ [][NotifyNext]_vars

(***************************************************************************)
(* Unsaved documents only: every timer finds its document dirty, so every  *)
(* run analyses a temp snapshot.                                           *)
(***************************************************************************)
SnapshotSubmit ==
    \E d \in PhpDocs : Len(calls) < MaxSnapshotSubmits /\ updateDocument(d)
SnapshotTimer == \E d \in PhpDocs, text \in Texts : TimerFire(d, TRUE, text)
SnapshotExit ==
    \E c \in 1..Len(calls), code \in {0, 1}, k \in 1..NumOutputs,
       texts \in [PhpDocs -> Texts] : ExitEvent(c, code, k, texts)

SnapshotNext ==
    \/ SnapshotSubmit
    \/ Resume
    \/ SnapshotTimer
    \/ ParseLock
    \/ SnapshotExit

SnapshotSpec == Init /\ [][SnapshotNext]_vars

(***************************************************************************)
(* The engine until and after dispose(): the controller is disposed with   *)
(* the engine, so no document event calls updateDocument any more; the     *)
(* callbacks that are pending are still delivered.                         *)
(***************************************************************************)
DisposeSubmit ==
    \E d \in PhpDocs :
        ~disposed /\ Len(calls) < MaxDisposeSubmits /\ updateDocument(d)

DisposeNext ==
    \/ DisposeSubmit
    \/ Resume
    \/ LiveTimer
    \/ Lock
    \/ Error
    \/ ConfigExit
    \/ Dispose

DisposeSpec == Init /\ [][DisposeNext]_vars

(***************************************************************************)
(* The claims.                                                             *)
(***************************************************************************)
CallIds == 1..Len(calls)

\* the calls whose timer fired
Fired(c) == calls[c].st \in {"waiting", "threw", "spawnerror", "failed", "running", "exited"}

\* C1: in every reachable state at most one analyzer process is executing
\* (spawned and not yet exited), across all files.
C1_AtMostOneExecuting == Cardinality({c \in CallIds : Executing(c)}) <= 1

\* C2: when updateDocument is called for a file while an earlier call for the
\* same file has not yet had its timer fire, the earlier call's timer never
\* fires: one process for the two submissions.
C2_EarlierTimerNeverFires ==
    \A c2 \in CallIds :
        ~calls[c2].excl => \A c1 \in calls[c2].sup : ~Fired(c1)

\* C3: the exit handler of a run that a newer updateDocument of its file
\* killed neither replaces the file's ResultSet nor republishes diagnostics.
C3_SupersededRunAppliesNothing ==
    [][\A c \in CallIds, code \in ExitCodes \cup {NullCode}, k \in 1..NumOutputs,
          texts \in [PhpDocs -> Texts] :
            (ExitEvent(c, code, k, texts) /\ calls[c].killed /\ calls[c].by = "submit")
                => (errors' = errors /\ diag' = diag)]_vars

\* C4: whenever no analyzer process is executing and no spawn is under way,
\* the lock is free: the active-run counter is 0.
C4_LockFreeWhenIdle ==
    (\A c \in CallIds : calls[c].st \notin {"running", "spawnerror"}) => numActive = 0

\* C5: a run that waits in the lock poll while the process of another file,
\* killed by a new updateDocument of that file, is still running, eventually
\* leaves the poll: the exit handler frees the lock and the waiter spawns.
C5_WaiterEventuallySpawns ==
    \A b \in 1..MaxLiveSubmits :
        (/\ b \in CallIds
         /\ calls[b].st = "waiting"
         /\ \E a \in CallIds :
               /\ calls[a].doc # calls[b].doc
               /\ calls[a].st = "running"
               /\ calls[a].by = "submit")
        ~> (b \in CallIds /\ calls[b].st \in {"running", "spawnerror", "exited", "failed"})

\* does the path of d match one of the exclude patterns, resolved against
\* the workspace folder
MatchesExclude(d, patterns) ==
    \E i \in 1..Len(patterns) : GlobMatch(PathJoin(WorkspaceDir, patterns[i]), fileName(d))

\* C6: an updateDocument for a file that matches an exclude pattern is marked
\* excluded, and a call marked excluded never arms a timer and never runs.
C6_ExcludedNeverRuns ==
    /\ [](\A c \in CallIds :
            calls[c].excl => /\ calls[c].st \in {"awaiting", "excluded"}
                            /\ timeouts[calls[c].doc] # c
                            /\ current[calls[c].doc] # c)
    /\ [][\A d \in PhpDocs :
            (updateDocument(d) /\ Len(calls') > Len(calls)
                /\ MatchesExclude(d, excludeFiles))
                => calls'[Len(calls')].excl]_vars

C6_Witness ==
    \E c \in CallIds : calls[c].st = "excluded" /\ MatchesExclude(calls[c].doc, excludeFiles)

\* C7: updateDocument changes nothing but the status bar when the engine is
\* disabled, the binary path is null or the document is not PHP.
C7_GuardedSubmitIsNoop ==
    [][\A d \in Docs :
          (updateDocument(d) /\ (~enabled \/ binaryPath = "null" \/ languageId(d) # "php"))
              => UNCHANGED <<enabled, binaryPath, excludeFiles, calls, timeouts, current,
                             errors, errorKeys, diag, numActive, numQueued>>]_vars

C7_Witness ==
    /\ last = "noop"
    /\ ~enabled
    /\ \E d \in PhpDocs : timeouts[d] # 0
    /\ \E c \in CallIds : Executing(c)

\* a non-blank line that does not start with "!"
HasToolLevelLine(results) ==
    LET lines == Split(results, "\n")
    IN  \E i \in 1..Len(lines) :
            LET x == Trim(lines[i]) IN x # <<>> /\ x[1] # "!"

\* C8: an exit with a code other than 1 whose stdout has a tool-level line
\* leaves every ResultSet and the published diagnostics as they were.
C8_ToolFailureKeepsResults ==
    [][\A c \in CallIds, code \in (ExitCodes \cup {NullCode}) \ {1}, k \in 1..NumOutputs,
          texts \in [PhpDocs -> Texts] :
            (ExitEvent(c, code, k, texts) /\ HasToolLevelLine(Outputs(FilePath(c))[k]))
                => UNCHANGED <<errors, errorKeys, diag>>]_vars

C8_Witness ==
    /\ last = "kept"
    /\ \E d \in PhpDocs : diag[d] # <<>> /\ Len(errors[d]) = 1 /\ errors[d][1].line = 2

\* the findings each stdout of the model stands for
ExpectedFindings(k, d) ==
    IF k = 2
    THEN << [file |-> fileName(d), line |-> 2, msg |-> ToolTag \o <<"m">>,
             type |-> "undefined"] >>
    ELSE <<>>

\* C9: an exit with code 1 replaces the file's ResultSet by the findings of
\* the run, leaves the other ResultSets alone, and publishes for every file
\* exactly its ResultSet.
C9_ReplacedAndMerged ==
    [][\A c \in CallIds, k \in 1..NumOutputs, texts \in [PhpDocs -> Texts] :
          ExitEvent(c, 1, k, texts)
              => /\ errors'[calls[c].doc] = ExpectedFindings(k, calls[c].doc)
                 /\ \A g \in PhpDocs \ {calls[c].doc} : errors'[g] = errors[g]
                 /\ \A g \in PhpDocs :
                       /\ Len(diag'[g]) = Len(errors'[g])
                       /\ \A i \in 1..Len(errors'[g]) :
                             /\ diag'[g][i].line = errors'[g][i].line - 1
                             /\ diag'[g][i].msg = errors'[g][i].msg]_vars

\* C10: the temp snapshot of a run is deleted once the run is over, however
\* it ended.
C10_TempFileDeleted ==
    \A c \in CallIds : calls[c].st \in Over => ~calls[c].tmp

\* the calls whose spawn was called with an executable
Spawned(cs) == {c \in 1..Len(cs) : cs[c].st \in {"running", "spawnerror"}}

\* C11: the error handler of a missing executable shows the error message and
\* sets the binary path to null; while the path is null it stays null unless
\* the path setter runs, updateDocument starts no call and no process is
\* spawned.
C11_MissingBinaryStopsRuns ==
    /\ [][\A c \in CallIds :
            ErrorEvent(c, TRUE) => (binaryPath' = "null" /\ last' = "message")]_vars
    /\ [][(binaryPath = "null"
            /\ ~(\E val \in PathValues, found \in {"null", FoundPath} : SetPath(val, found)))
            => /\ binaryPath' = "null"
               /\ Spawned(calls') \subseteq Spawned(calls)
               /\ \A d \in Docs : updateDocument(d) => calls' = calls]_vars

C11_Witness ==
    /\ binaryPath = "null"
    /\ ~enabled
    /\ \E c \in CallIds : calls[c].st = "failed"
    /\ \E c \in CallIds : calls[c].st = "threw"

\* C12: once a missing executable cleared the binary path and the path setter
\* has set it to an executable again, the call of an updateDocument for a
\* file that is not excluded eventually spawns its process.
C12_RecoveredPathRunsAgain ==
    \A c \in 1..MaxRecoverSubmits :
        (/\ c \in CallIds
         /\ calls[c].st \in {"awaiting", "armed", "waiting"}
         /\ ~calls[c].excl
         /\ binaryPath # "null"
         /\ \E a \in CallIds : calls[a].st = "failed")
        ~> (c \in CallIds /\ calls[c].st \in {"running", "spawnerror", "exited", "failed"})

\* C13: when the timer of a file fires for a document with unsaved changes,
\* the path that is analysed is a fresh temp file that holds the text of the
\* buffer; for a saved document it is the path of the document and there is
\* no temp file.  That path is the one spawn is given.
C13_SnapshotOfDirtyBuffer ==
    /\ [][\A d \in PhpDocs, isDirty \in BOOLEAN, text \in Texts :
            TimerFire(d, isDirty, text) =>
                LET c == timeouts[d]
                    target == IF calls'[c].tmp THEN TmpName(c) ELSE fileName(calls'[c].doc)
                IN  IF isDirty
                    THEN /\ calls'[c].tmp
                         /\ calls'[c].snap = text
                         /\ target = TmpName(c)
                         /\ \A g \in Docs : target # fileName(g)
                         /\ \A c2 \in CallIds \ {c} : calls[c2].tmp => TmpName(c2) # target
                    ELSE /\ ~calls'[c].tmp
                         /\ calls'[c].snap = <<>>
                         /\ target = fileName(d)]_vars
    /\ [][\A c \in CallIds, spawned \in BOOLEAN :
            (LockPoll(c, spawned) /\ binaryPath # "null") =>
                /\ calls'[c].tmp = calls[c].tmp
                /\ calls'[c].snap = calls[c].snap
                /\ SpawnArgs(c)[Len(SpawnArgs(c))] =
                       (IF calls[c].tmp THEN TmpName(c) ELSE fileName(calls[c].doc))]_vars

C13_Witness ==
    \E c, c2 \in CallIds :
        /\ calls[c].st = "running" /\ calls[c].tmp /\ calls[c].snap = TwoLineText
        /\ calls[c2].st = "waiting" /\ ~calls[c2].tmp

\* the lines of output number k, for the outputs made of OutputLines
LinesOf(k) == [i \in 1..Len(LineIds(k - NumOutputs)) |-> OutputLines[LineIds(k - NumOutputs)[i]]]

AtLeastOne(n) == IF n < 1 THEN 1 ELSE n

ShortTexts == [d \in PhpDocs |-> ShortText]

\* C14 as stated: of an output whose lines are all <path>:<n>:<msg> with a
\* number n, every line gives one Finding, with line max(1, n) and the tool
\* tag followed by <msg> as its msg.
C14_NumericLineFinding ==
    [][\A c \in CallIds, k \in (NumOutputs + 1)..NumAllOutputs :
          (ExitEvent(c, 1, k, ShortTexts) /\ \A i \in 1..Len(LinesOf(k)) : LinesOf(k)[i].numeric)
              => /\ Len(errors'[calls[c].doc]) = Len(LinesOf(k))
                 /\ \A i \in 1..Len(LinesOf(k)) :
                       /\ errors'[calls[c].doc][i].line = AtLeastOne(LinesOf(k)[i].val)
                       /\ errors'[calls[c].doc][i].msg = ToolTag \o LinesOf(k)[i].msg]_vars

\* C14, amended: of an output whose lines are all <path>:<n>:<msg> with a
\* number n and a <msg> without the text of an autoload failure, every line
\* gives one Finding, with line max(1, n) and the tool tag followed by <msg>
\* without its trailing whitespace as its msg.
C14_PlainNumericLineFinding ==
    [][\A c \in CallIds, k \in (NumOutputs + 1)..NumAllOutputs :
          (ExitEvent(c, 1, k, ShortTexts)
              /\ \A i \in 1..Len(LinesOf(k)) : LinesOf(k)[i].numeric /\ ~LinesOf(k)[i].auto)
              => /\ Len(errors'[calls[c].doc]) = Len(LinesOf(k))
                 /\ \A i \in 1..Len(LinesOf(k)) :
                       /\ errors'[calls[c].doc][i].file = fileName(calls[c].doc)
                       /\ errors'[calls[c].doc][i].line = AtLeastOne(LinesOf(k)[i].val)
                       /\ errors'[calls[c].doc][i].msg = ToolTag \o LinesOf(k)[i].shown]_vars

C14_Witness ==
    /\ last = "applied"
    /\ \E d \in PhpDocs :
          /\ Len(errors[d]) = 2
          /\ errors[d][1].line = 1 /\ errors[d][1].msg = ToolTag \o <<"m">>
          /\ errors[d][2].line = 2 /\ errors[d][2].msg = ToolTag \o <<"a", ":", "b">>
    /\ \E d \in PhpDocs :
          /\ Len(errors[d]) = 1
          /\ errors[d][1].line = 12 /\ errors[d][1].msg = ToolTag \o <<"m">>

\* C15: of an output whose lines all have a leading field that is no number,
\* no line gives a Finding.
C15_NonNumericLineDropped ==
    [][\A c \in CallIds, k \in (NumOutputs + 1)..NumAllOutputs :
          (ExitEvent(c, 1, k, ShortTexts) /\ \A i \in 1..Len(LinesOf(k)) : ~LinesOf(k)[i].numeric)
              => errors'[calls[c].doc] = <<>>]_vars

\* the ids of the lines of output k before its first autoload line, and of
\* its lines that are no autoload lines
AutoLines(k) == {i \in 1..Len(LinesOf(k)) : LinesOf(k)[i].auto}
BeforeAuto(k) ==
    SubSeq(LineIds(k - NumOutputs), 1,
           (CHOOSE i \in AutoLines(k) : \A j \in AutoLines(k) : i <= j) - 1)
WithoutAuto(k) ==
    LET NotAuto(id) == ~OutputLines[id].auto IN FilterSeq(NotAuto, LineIds(k - NumOutputs))

Synthetic(fs) == {p \in 1..Len(fs) : fs[p].msg = ToolTag \o AutoloadText}

\* C16: the lines of one output whose message has the text of an autoload
\* failure give one Finding, at line 1 with the synthetic message, where the
\* first of them stands; the later ones are dropped; an output without such
\* a line has no such Finding; every run starts anew.
C16_AutoloadOncePerRun ==
    [][\A c \in CallIds, k \in (NumOutputs + 1)..NumAllOutputs :
          ExitEvent(c, 1, k, ShortTexts) =>
              LET fs == errors'[calls[c].doc]
                  path == FilePath(c)
                  file == fileName(calls[c].doc)
              IN  IF AutoLines(k) = {}
                  THEN Synthetic(fs) = {}
                  ELSE /\ Synthetic(fs) =
                            {Len(ParseFindings(Stdout(path, BeforeAuto(k)), path, file)) + 1}
                       /\ \A p \in Synthetic(fs) : fs[p].line = 1
                       /\ Len(fs) =
                            Len(ParseFindings(Stdout(path, WithoutAuto(k)), path, file)) + 1]_vars

C16_Witness ==
    /\ last = "applied"
    /\ \E c \in CallIds : calls[c].st = "exited" /\ calls[c].doc = "a"
    /\ \E c \in CallIds : calls[c].st = "exited" /\ calls[c].doc = "b"
    /\ errors["a"] = << [file |-> fileName("a"), line |-> 1,
                         msg |-> ToolTag \o AutoloadText, type |-> "undefined"] >>
    /\ Len(errors["b"]) = 2
    /\ errors["b"][1].msg = ToolTag \o <<"m">>
    /\ errors["b"][2].msg = ToolTag \o AutoloadText
    /\ errors["b"][2].line = 1

NoResults == [d \in PhpDocs |-> <<>>]

\* C17: the setters of path, level, options and projectFile clear every
\* ResultSet; the setters of memoryLimit and excludeFiles leave them alone.
C17_SettersClearResults ==
    [][/\ \A val \in PathValues, found \in {"null", FoundPath} :
             SetPath(val, found) => errors' = NoResults
       /\ \A val \in Levels : SetLevel(val) => errors' = NoResults
       /\ \A val \in OptionLists : SetOptions(val) => errors' = NoResults
       /\ \A val \in ProjectFiles : SetProjectFile(val) => errors' = NoResults
       /\ \A val \in MemoryLimits : SetMemoryLimit(val) => errors' = errors
       /\ \A val \in ExcludeConfigs : SetExcludeFiles(val) => errors' = errors]_vars

\* C18: between the handlers, the status bar item is hidden whenever the
\* queued counter and the active counter are both 0.
C18_IdleHidesStatusBar == (numActive = 0 /\ numQueued = 0) => ~statusBar

\* the pending runs of file d: an armed timer, a run waiting for the lock, a
\* process that was spawned, has not exited and was not killed
PendingRuns(d) ==
    {c \in CallIds :
        /\ calls[c].doc = d
        /\ \/ calls[c].st \in {"armed", "waiting", "spawnerror"}
           \/ calls[c].st = "running" /\ ~calls[c].killed}

\* C19: every file has at most one pending run.
C19_OnePendingRunPerFile == \A d \in PhpDocs : Cardinality(PendingRuns(d)) <= 1

\* a surface that holds a diagnostic for every file
StaleSurface ==
    [d \in PhpDocs |-> <<FallbackDiagnostic(QueuedPlaceholder(fileName(d))[1])>>]

\* C20: handleDiagnosticErrors called twice with the documents and findings
\* of the engine leaves the collection as one call leaves it, whatever the
\* collection held.
C20_RendererIdempotent ==
    \A texts \in [PhpDocs -> Texts], surface \in {diag, StaleSurface} :
        LET documents == {errorKeys[i] : i \in 1..Len(errorKeys)}
            findings == MergedErrors(errors, errorKeys)
            once == PublishOn(surface, documents, findings, texts)
        IN  PublishOn(once, documents, findings, texts) = once

C20_Witness ==
    /\ Len(MergedErrors(errors, errorKeys)) >= 2
    /\ \E d \in PhpDocs : diag[d] # <<>>
    /\ PublishOn(diag, {errorKeys[i] : i \in 1..Len(errorKeys)},
                 MergedErrors(errors, errorKeys), [d \in PhpDocs |-> TwoLineText]) # diag

\* C21: the active counter behind the lock is always 0 or 1.
C21_ActiveCounterZeroOrOne == numActive \in {0, 1}

\* C22: once the engine was disabled while a process ran and is enabled
\* again, the call of an updateDocument for a file that is not excluded
\* eventually claims the lock and spawns its process.
C22_ReenabledRunsAgain ==
    \A c \in 1..MaxToggleSubmits :
        (/\ c \in CallIds
         /\ calls[c].st \in {"armed", "waiting"}
         /\ enabled
         /\ nconf = MaxToggles)
        ~> (c \in CallIds /\ calls[c].st \in {"running", "exited"})

\* C23: while the engine is disabled no step spawns a process: neither a
\* timer armed before set enabled(false) nor a run that waits for the lock
\* starts one.
C23_DisabledSpawnsNothing ==
    [][~enabled => Spawned(calls') \subseteq Spawned(calls)]_vars

\* what the files other than d have: their calls, their timers, their
\* processes and their results are the same after the step
OthersUntouched(d) ==
    /\ \A c \in CallIds : calls[c].doc # d => calls'[c] = calls[c]
    /\ \A b \in PhpDocs \ {d} :
          /\ timeouts'[b] = timeouts[b]
          /\ current'[b] = current[b]
          /\ errors'[b] = errors[b]

\* C24: updateDocument for file d, and its continuation after isExcluded,
\* leave the process, the timer, the lock wait and the results of every
\* other file as they are.
C24_SubmitTouchesOneFile ==
    [][/\ \A d \in Docs : updateDocument(d) => OthersUntouched(d)
       /\ \A c \in CallIds : ExclusionResume(c) => OthersUntouched(calls[c].doc)]_vars

C24_Witness ==
    \E c1, c2 \in CallIds :
        /\ c1 < c2
        /\ c2 = Len(calls)
        /\ calls[c1].doc # calls[c2].doc
        /\ calls[c2].st = "armed"
        /\ \/ calls[c1].st = "running" /\ ~calls[c1].killed /\ current[calls[c1].doc] = c1
           \/ calls[c1].st = "armed" /\ timeouts[calls[c1].doc] = c1

\* C25: an exit with a code other than 1 whose stdout has no tool-level line
\* replaces the ResultSet of the file by the empty list and publishes for
\* every tracked file exactly its ResultSet.
C25_CleanExitClearsResults ==
    [][\A c \in CallIds, code \in (ExitCodes \cup {NullCode}) \ {1}, k \in 1..NumOutputs,
          texts \in [PhpDocs -> Texts] :
            (~HasToolLevelLine(Outputs(FilePath(c))[k]) /\ ExitEvent(c, code, k, texts))
                => /\ errors'[calls[c].doc] = <<>>
                   /\ \A g \in PhpDocs :
                         /\ Len(diag'[g]) = Len(errors'[g])
                         /\ \A i \in 1..Len(errors'[g]) :
                               /\ diag'[g][i].line = errors'[g][i].line - 1
                               /\ diag'[g][i].msg = errors'[g][i].msg]_vars

\* a ResultSet that is the single placeholder: line 1, informational
IsPlaceholder(rs) ==
    /\ Len(rs) = 1
    /\ rs[1].line = 1
    /\ rs[1].type = "Information"
    /\ rs[1].msg = ToolTag \o QueuedText

\* a placeholder goes away only in a step where a run of its file exits
PlaceholderStays ==
    \A d \in PhpDocs :
        (IsPlaceholder(errors[d]) /\ errors'[d] # errors[d])
            => \E c \in CallIds :
                  calls[c].doc = d /\ calls[c].st = "running" /\ calls'[c].st = "exited"

\* C26 as stated: whenever the timer of a file fires, the ResultSet of the
\* file becomes the single placeholder, which stays until a run of the file
\* completes.
C26_TimerMarksQueued ==
    [][/\ \A d \in PhpDocs, isDirty \in BOOLEAN, text \in Texts :
             TimerFire(d, isDirty, text) => IsPlaceholder(errors'[d])
       /\ PlaceholderStays]_vars

\* C26, amended: when the timer fires for a file that has no ResultSet yet,
\* the ResultSet becomes the single placeholder, which stays until a run of
\* the file completes; the timer of a file that has a ResultSet leaves the
\* ResultSet as it is.
C26_FirstTimerMarksQueued ==
    [][/\ \A d \in PhpDocs, isDirty \in BOOLEAN, text \in Texts :
             TimerFire(d, isDirty, text)
                 => IF InSeq(d, errorKeys) THEN errors'[d] = errors[d]
                    ELSE IsPlaceholder(errors'[d])
       /\ PlaceholderStays]_vars

C26_Witness ==
    \E c \in CallIds :
        /\ calls[c].st = "waiting"
        /\ IsPlaceholder(errors[calls[c].doc])
        /\ \A b \in CallIds : calls[b].doc = calls[c].doc => calls[b].st # "exited"

\* the runs whose timer fired and that have not claimed the lock
Queued == {c \in CallIds : calls[c].st = "waiting"}

\* C27: the queued counter is the number of runs whose timer has fired and
\* that have not yet claimed the lock; it is never negative.
C27_QueuedCounterCountsWaiters == numQueued = Cardinality(Queued) /\ numQueued >= 0

C27_Witness ==
    /\ numQueued = 1
    /\ \E c \in CallIds : calls[c].st = "running"
    /\ \E c \in CallIds : calls[c].st = "waiting"

\* C28: runs of different files claim the lock in the order in which they
\* entered the poll: once run a waits in the poll while run b has not yet
\* entered it, b never has its process while a still waits.
C28_FifoAcrossFiles ==
    \A a, b \in 1..MaxLiveSubmits :
        []((/\ a \in CallIds /\ b \in CallIds
            /\ calls[a].doc # calls[b].doc
            /\ calls[a].st = "waiting"
            /\ calls[b].st \in {"awaiting", "armed"})
           => [](~(a \in CallIds /\ calls[a].st = "waiting" /\ b \in Spawned(calls))))

\* the tool lines of output number k, for the outputs made of ToolLines
ToolLinesOf(k) ==
    [i \in 1..Len(ToolLineIds(k - NumAllOutputs)) |-> ToolLines[ToolLineIds(k - NumAllOutputs)[i]]]

\* the lines of a sequence of tool lines that are not skipped
RECURSIVE Notified(_)
Notified(ls) ==
    IF ls = <<>> THEN <<>>
    ELSE (IF Head(ls).kind = "none" THEN <<>> ELSE <<Head(ls)>>) \o Notified(Tail(ls))

\* C29: an exit with a code other than 1 shows exactly one notification for
\* each stdout line that, without its surrounding whitespace, is not empty
\* and does not start with "!": a warning when it begins with "Warning:", an
\* error when it begins with "Fatal error:", an information otherwise, in the
\* order of the lines; an exit with code 1 shows none.
C29_OneNotificationPerToolLine ==
    [][\A c \in CallIds, code \in {0, 1},
          k \in (NumAllOutputs + 1)..(NumAllOutputs + NumToolOutputs) :
          ExitEvent(c, code, k, ShortTexts) =>
              IF code = 1 THEN notifications' = <<>>
              ELSE LET ls == Notified(ToolLinesOf(k))
                   IN  /\ Len(notifications') = Len(ls)
                       /\ \A i \in 1..Len(ls) :
                             /\ notifications'[i].type = ls[i].kind
                             /\ notifications'[i].text = ToolTag \o ls[i].message]_vars

C29_Witness ==
    /\ last = "kept"
    /\ Len(notifications) = 2
    /\ notifications[1].type = "error"
    /\ notifications[2].type = "warning" /\ notifications[2].text = ToolTag

\* no armed timer, no run in the lock poll, no process, both counters 0 and
\* the status bar item hidden
Quiescent ==
    /\ \A d \in PhpDocs : timeouts[d] = 0
    /\ \A c \in CallIds : calls[c].st \in Over
    /\ numActive = 0
    /\ numQueued = 0
    /\ ~statusBar

\* C30: once the submissions have stopped, with every callback delivered and
\* every process exiting, the engine becomes quiescent and stays so.
C30_EventuallyQuiescent == <>[]Quiescent

\* the temp snapshot paths of the runs
SnapshotPaths == {TmpName(c) : c \in 1..MaxSnapshotSubmits}

\* C31: the findings of a run that analysed a temp snapshot are stored under
\* the fileName of the document and have that fileName, never the path of a
\* snapshot; the other ResultSets stay; what is published is published for
\* the document.
C31_FindingsUnderDocumentPath ==
    [][\A c \in CallIds :
          (calls[c].st = "running" /\ calls[c].tmp /\ calls'[c].st = "exited"
              /\ last' = "applied")
          => LET d == calls[c].doc
             IN  /\ \A i \in 1..Len(errors'[d]) :
                       /\ errors'[d][i].file = fileName(d)
                       /\ errors'[d][i].file \notin SnapshotPaths
                 /\ \A g \in PhpDocs \ {d} : errors'[g] = errors[g]
                 /\ diag' # EmptyCollection => Len(diag'[d]) = Len(errors'[d])]_vars

C31_Witness ==
    /\ last = "applied"
    /\ \E d \in PhpDocs :
          /\ Len(errors[d]) = 1 /\ errors[d][1].line = 2
          /\ errors[d][1].file = fileName(d)
          /\ Len(diag[d]) = 1 /\ diag[d][1].line = 1

\* C32: when dispose() returns every process that runs has been killed, and
\* once it has been called no step spawns a process: neither a timer that
\* was armed nor a run that waited for the lock starts one.
C32_DisposeStopsEverything ==
    [][/\ (~disposed /\ disposed')
          => \A c \in CallIds : calls'[c].st = "running" => calls'[c].killed
       /\ disposed => Spawned(calls') \subseteq Spawned(calls)]_vars

\* the number of whitespace characters a line starts with, and ends with
LeadingWhitespace(t) == Len(t) - Len(TrimLeft(t))
TrailingWhitespace(t) == Len(t) - Len(TrimRight(t))

\* C33: for every finding handleDiagnosticErrors publishes a diagnostic on
\* line (line - 1); when the file of the finding is among the documents its
\* range starts after the leading whitespace of the text of the line and
\* ends before its trailing whitespace, otherwise it is columns 0 to 1.
C33_TightRange ==
    \A texts \in [PhpDocs -> Texts],
       documents \in SUBSET {errorKeys[i] : i \in 1..Len(errorKeys)} :
        LET published == PublishOn(diag, documents, MergedErrors(errors, errorKeys), texts)
        IN  \A g \in PhpDocs :
               /\ Len(published[g]) = Len(errors[g])
               /\ \A i \in 1..Len(errors[g]) :
                     /\ published[g][i].line = errors[g][i].line - 1
                     /\ IF g \in documents
                        THEN LET t == texts[g][errors[g][i].line]
                             IN  /\ published[g][i].startColumn = LeadingWhitespace(t)
                                 /\ published[g][i].endColumn = Len(t) - TrailingWhitespace(t)
                        ELSE /\ published[g][i].startColumn = 0
                             /\ published[g][i].endColumn = 1

====
